---- MODULE Spec2Model ----
(***************************************************************************)
(* TauCalibrator (Root/TauCalibrator.cxx): the per-event fan-out over the  *)
(* systematic variations of the tau smearing tool.  For every variation of *)
(* m_systList execute() configures the tool, takes a shallow copy of the   *)
(* input tau container, corrects the truth-matched taus (simulation only), *)
(* sets the original-object links, builds a view (sorted by pt on demand)  *)
(* and records copy, auxiliary store and view in the event store; at the   *)
(* end it records the list of variation names.                             *)
(*                                                                         *)
(* The event store, the smearing tool, xAOD::shallowCopyContainer and      *)
(* xAOD::setOriginalObjectLink are external: they are modelled by their    *)
(* interface at the call sites (record fails on a key that is present,     *)
(* retrieve fails on a key that is absent, each tool call returns one of   *)
(* its codes).                                                             *)
(***************************************************************************)
EXTENDS Integers, Sequences, FiniteSets, TLC

\* ------------------------------------------------------------- bounds
\* largest input tau container
MaxTaus == 2
\* execute() calls on one event store
MaxExec == 2

\* ------------------------------------------------------ the environment
\* m_name, the algorithm instance's name
AlgName == "TauCalibrator"
\* m_eventInfoContainerName
EventInfoName == "EventInfo"
\* the baseline (nominal) variation: CP::SystematicSet().name()
Nominal == ""
\* what m_tauSmearingTool_handle->recommendedSystematics() may hold, in the
\* tool's order: the tool decides the names
RecommendedSystematics == {<<"_1up">>, <<"ShallowCopy">>}
\* values of the property inContainerName
InContainerNames == {"Taus", ""}
\* values of the property outContainerName
OutContainerNames == {"Out"}
\* values of the property outputAlgoSystNames
OutputAlgoSystNames == {"Out_Systs", "Out_1up"}
\* CP::CorrectionCode
CorrectionCodes == {"Ok", "OutOfValidityRange", "Error"}

\* the transverse momenta of the input taus: two values give the orders <, =, >
PtValues == {1, 2}
\* an input tau: its pt and whether TauHelpers::getTruthParticle finds a truth tau
TauJets == [pt : PtValues, truth : BOOLEAN]
\* the input containers
TauJetContainers == UNION {[1..n -> TauJets] : n \in 0..MaxTaus}

VARIABLES
    \* properties (constructor, declareProperty)
    m_inContainerName, m_outContainerName, m_outputAlgoSystNames, m_sort,
    \* isMC() of the sample
    mc,
    \* members set by initialize()
    m_outAuxContainerName, m_outSCContainerName, m_outSCAuxContainerName,
    m_systList, m_numEvent,
    \* lifecycle: "constructed" | "initialized" | "initFailed"
    phase,
    \* the smearing tool's active variation
    toolSyst,
    \* the event store: key -> [kind, syst, data]
    store,
    \* execute(): position, returned status, the failing call
    pc, status, failure,
    \* execute() locals
    vecOutContainerNames, sysIdx, calibTausSC, calibTausCDV, idx,
    \* messages of this execute(): a WARNING was logged (line 221), the number
    \* of ERRORs logged for the links (line 234)
    warned, nLinkError,
    \* history: the store when execute() was entered, the status of the
    \* execute() before this one ("none" for the first)
    store0, prevStatus

vars == <<m_inContainerName, m_outContainerName, m_outputAlgoSystNames, m_sort,
          mc, m_outAuxContainerName, m_outSCContainerName,
          m_outSCAuxContainerName, m_systList, m_numEvent, phase, toolSyst,
          store, pc, status, failure, vecOutContainerNames, sysIdx,
          calibTausSC, calibTausCDV, idx, warned, nLinkError, store0,
          prevStatus>>

config == <<m_inContainerName, m_outContainerName, m_outputAlgoSystNames,
            m_sort, mc>>

members == <<m_outAuxContainerName, m_outSCContainerName,
             m_outSCAuxContainerName, m_systList, phase>>

\* ------------------------------------------------------------ helpers
EmptyStore == [key \in {} |-> 0]

Entry(kind, syst, data) == [kind |-> kind, syst |-> syst, data |-> data]

\* subsequences of s (order kept)
RECURSIVE SubSeqs(_)
SubSeqs(s) ==
    IF s = <<>> THEN {<<>>}
    ELSE LET rest == SubSeqs(Tail(s))
         IN  rest \cup {<<Head(s)>> \o r : r \in rest}

\* HelperFunctions::getListofSystematics: the nominal variation first (when
\* asked for), then the selected recommended systematics in the tool's order
SystLists == UNION {SubSeqs(<<Nominal>> \o rec) : rec \in RecommendedSystematics}

\* TauSmearingTool::applyCorrection with code Ok: the corrected pt under the
\* active variation
Shift(syst) ==
    CASE syst = Nominal -> 1
      [] syst = "_1up"  -> 2
      [] OTHER          -> 3

Corr(syst, pt) == pt + Shift(syst)

\* the orders of n elements
Orders(n) ==
    {p \in [1..n -> 1..n] : \A i, j \in 1..n : p[i] = p[j] => i = j}

\* ------------------------------------------------- external collaborators
\* evtStore()->retrieve(ptr, key): fails unless key holds an object of the kind
Retrievable(st, key, kind) == key \in DOMAIN st /\ st[key].kind = kind

\* the input container execute() works on
InTaus(st) == st[m_inContainerName].data

\* xAOD::shallowCopyContainer(*inTaus): one copy per input tau, in input
\* order, with the input's values; orig is the original-object link (0: not
\* set), calls the tool's active variation at each applyCorrection on the copy
ShallowCopyContainer(taus) ==
    [i \in 1..Len(taus) |->
        [pt |-> taus[i].pt, truth |-> taus[i].truth, orig |-> 0, calls |-> <<>>]]

\* the variables the shallow copy's auxiliary store holds
AuxData(sc) == [i \in 1..Len(sc) |-> sc[i].pt]

\* m_tauSmearingTool_handle->applyCorrection(tau) returning code, with the
\* tool's active variation syst: Ok corrects the pt, OutOfValidityRange and
\* Error leave the tau as it is
ApplyCorrection(tau, syst, code) ==
    [tau EXCEPT !.pt = IF code = "Ok" THEN Corr(syst, @) ELSE @,
                !.calls = Append(@, syst)]

\* xAOD::setOriginalObjectLink(*inTaus, copy) succeeding: copy i links input i
SetOriginalObjectLink(sc) == [i \in 1..Len(sc) |-> [sc[i] EXCEPT !.orig = i]]

\* HelperFunctions::makeSubsetCont without a selection flag: pointers to all
\* elements of the copy, in the copy's order
MakeSubsetCont(sc) == [i \in 1..Len(sc) |-> i]

\* HelperFunctions::sort_pt
sort_pt(a, b) == a.pt > b.pt

\* std::sort(view.begin(), view.end(), sort_pt): every order of the view in
\* which no element is sort_pt-before an earlier one (ties in any order)
StdSort(view, sc) ==
    {r \in {[i \in 1..Len(view) |-> view[p[i]]] : p \in Orders(Len(view))} :
        \A i, j \in 1..Len(r) : i < j => ~sort_pt(sc[r[j]], sc[r[i]])}

\* ---------------------------------------------------------- execute()
\* the state execute() reads and writes
Cur ==
    [pc |-> pc, status |-> status, failure |-> failure,
     m_numEvent |-> m_numEvent, toolSyst |-> toolSyst, store |-> store,
     vec |-> vecOutContainerNames, sysIdx |-> sysIdx, sc |-> calibTausSC,
     cdv |-> calibTausCDV, idx |-> idx, warned |-> warned,
     nLinkError |-> nLinkError]

Commit(e) ==
    /\ pc' = e.pc
    /\ status' = e.status
    /\ failure' = e.failure
    /\ m_numEvent' = e.m_numEvent
    /\ toolSyst' = e.toolSyst
    /\ store' = e.store
    /\ vecOutContainerNames' = e.vec
    /\ sysIdx' = e.sysIdx
    /\ calibTausSC' = e.sc
    /\ calibTausCDV' = e.cdv
    /\ idx' = e.idx
    /\ warned' = e.warned
    /\ nLinkError' = e.nLinkError

\* return from execute(): the copy and the view it was working on are out of
\* its hands
Return(e, code, what) ==
    [e EXCEPT !.pc = "done", !.status = code, !.failure = what,
              !.sc = <<>>, !.cdv = <<>>, !.idx = 0]

\* return StatusCode::FAILURE (ANA_CHECK, line 200)
Fail(e, what) == Return(e, "FAILURE", what)

\* for ( const auto& syst_it : m_systList ): the loop test
LoopSyst(e) ==
    [e EXCEPT !.pc = IF e.sysIdx <= Len(m_systList) THEN "syst" ELSE "recordNames"]

\* Retrieve without the check of the input container
Retrieve_InputUnchecked(e) ==
    LET e1 == [e EXCEPT !.m_numEvent = @ + 1, !.status = "running",
                        !.failure = "", !.vec = <<>>, !.sysIdx = 1,
                        !.sc = <<>>, !.cdv = <<>>, !.idx = 0,
                        !.warned = FALSE, !.nLinkError = 0]
    IN  IF Retrievable(e.store, EventInfoName, "EventInfo")
        THEN LoopSyst(e1)
        ELSE Fail(e1, "retrieve")

\* lines 163-181: count the event, retrieve the event info and the input
Retrieve(e) ==
    LET e1 == [e EXCEPT !.m_numEvent = @ + 1, !.status = "running",
                        !.failure = "", !.vec = <<>>, !.sysIdx = 1,
                        !.sc = <<>>, !.cdv = <<>>, !.idx = 0,
                        !.warned = FALSE, !.nLinkError = 0]
    IN  IF /\ Retrievable(e.store, EventInfoName, "EventInfo")
           /\ Retrievable(e.store, m_inContainerName, "TauJetContainer")
        THEN LoopSyst(e1)
        ELSE Fail(e1, "retrieve")

\* ApplySyst that lists a variation's name only when it is not the nominal one
ApplySyst_NominalUnlisted(e, ok) ==
    LET name == m_systList[e.sysIdx]
        e1 == [e EXCEPT !.vec = IF name = Nominal THEN @ ELSE Append(@, name)]
        sc == ShallowCopyContainer(InTaus(e.store))
    IN  IF ~ok THEN Fail(e1, "applySystematicVariation")
        ELSE [e1 EXCEPT !.toolSyst = name, !.sc = sc, !.cdv = <<>>, !.idx = 1,
                        !.pc = IF mc /\ Len(sc) >= 1 THEN "calibrate" ELSE "link"]

\* ApplySyst that copies the copy of the variation before, when there is one
ApplySyst_CopyOfCopy(e, ok) ==
    LET name == m_systList[e.sysIdx]
        e1 == [e EXCEPT !.vec = Append(@, name)]
        sc == ShallowCopyContainer(IF e.sysIdx > 1 THEN e.sc ELSE InTaus(e.store))
    IN  IF ~ok THEN Fail(e1, "applySystematicVariation")
        ELSE [e1 EXCEPT !.toolSyst = name, !.sc = sc, !.cdv = <<>>, !.idx = 1,
                        !.pc = IF mc /\ Len(sc) >= 1 THEN "calibrate" ELSE "link"]

\* ApplySyst that removes the outputs of the earlier variations when the tool
\* rejects the variation
ApplySyst_RollBack(e, ok) ==
    LET name == m_systList[e.sysIdx]
        e1 == [e EXCEPT !.vec = Append(@, name)]
        sc == ShallowCopyContainer(InTaus(e.store))
        kept == {key \in DOMAIN e.store : e.store[key].syst = 0}
    IN  IF ~ok
        THEN Fail([e1 EXCEPT !.store = [key \in kept |-> e.store[key]]],
                  "applySystematicVariation")
        ELSE [e1 EXCEPT !.toolSyst = name, !.sc = sc, !.cdv = <<>>, !.idx = 1,
                        !.pc = IF mc /\ Len(sc) >= 1 THEN "calibrate" ELSE "link"]

\* lines 185-209: name the outputs, configure the tool (ok: the tool accepts
\* the variation), take the shallow copy
ApplySyst(e, ok) ==
    LET name == m_systList[e.sysIdx]
        e1 == [e EXCEPT !.vec = Append(@, name)]
        sc == ShallowCopyContainer(InTaus(e.store))
    IN  IF ~ok THEN Fail(e1, "applySystematicVariation")
        ELSE [e1 EXCEPT !.toolSyst = name, !.sc = sc, !.cdv = <<>>, !.idx = 1,
                        !.pc = IF mc /\ Len(sc) >= 1 THEN "calibrate" ELSE "link"]

\* Calibrate without the check for a truth tau
Calibrate_TruthUnchecked(e, code) ==
    LET tau == e.sc[e.idx]
    IN  [e EXCEPT !.sc[e.idx] = ApplyCorrection(tau, e.toolSyst, code),
                  !.warned = @ \/ code = "Error",
                  !.idx = @ + 1,
                  !.pc = IF e.idx + 1 <= Len(e.sc) THEN "calibrate" ELSE "link"]

\* lines 216-229: one round of the calibration loop
Calibrate(e, code) ==
    LET tau == e.sc[e.idx]
        hit == tau.truth
    IN  [e EXCEPT !.sc[e.idx] = IF hit THEN ApplyCorrection(tau, e.toolSyst, code)
                                ELSE tau,
                  !.warned = @ \/ (hit /\ code = "Error"),
                  !.idx = @ + 1,
                  !.pc = IF e.idx + 1 <= Len(e.sc) THEN "calibrate" ELSE "link"]

\* LinkAndView that returns FAILURE when the links cannot be set
LinkAndView_FatalLink(e, ok, sorted) ==
    IF ~ok THEN Fail(e, "setOriginalObjectLink")
    ELSE [e EXCEPT !.sc = SetOriginalObjectLink(e.sc),
                   !.cdv = IF m_sort THEN sorted
                           ELSE MakeSubsetCont(SetOriginalObjectLink(e.sc)),
                   !.pc = "recordSC"]

\* LinkAndView that never sorts
LinkAndView_Unsorted(e, ok, sorted) ==
    LET sc == IF ok THEN SetOriginalObjectLink(e.sc) ELSE e.sc
    IN  [e EXCEPT !.sc = sc,
                  !.nLinkError = IF ok THEN @ ELSE @ + 1,
                  !.cdv = MakeSubsetCont(sc),
                  !.pc = "recordSC"]

\* lines 232-247: original-object links (ok: they could be set), the view,
\* the sort (sorted: what std::sort makes of the view)
LinkAndView(e, ok, sorted) ==
    LET sc == IF ok THEN SetOriginalObjectLink(e.sc) ELSE e.sc
    IN  [e EXCEPT !.sc = sc,
                  !.nLinkError = IF ok THEN @ ELSE @ + 1,
                  !.cdv = IF m_sort THEN sorted ELSE MakeSubsetCont(sc),
                  !.pc = "recordSC"]

\* Record that replaces the object a present key holds
Record_Overwrite(e, key, entry, next) ==
    [e EXCEPT !.store = [k \in DOMAIN e.store \cup {key} |->
                            IF k = key THEN entry ELSE e.store[k]],
              !.pc = next]

\* ANA_CHECK( evtStore()->record( object, key ) ): the store rejects a key
\* that is present, and execute() returns FAILURE; failure names the record
Record(e, key, entry, next) ==
    IF key \in DOMAIN e.store THEN Fail(e, e.pc)
    ELSE [e EXCEPT !.store = (key :> entry) @@ e.store, !.pc = next]

\* the three keys of a variation (lines 185-193)
SCKey(name) == m_outSCContainerName \o name
SCAuxKey(name) == m_outSCAuxContainerName \o name
OutKey(name) == m_outContainerName \o name

\* line 252
RecordSC(e) ==
    Record(e, SCKey(m_systList[e.sysIdx]),
           Entry("TauJetContainer", e.sysIdx, e.sc), "recordAux")

\* RecordAux that records nothing
RecordAux_Skipped(e) == [e EXCEPT !.pc = "recordCDV"]

\* line 253
RecordAux(e) ==
    Record(e, SCAuxKey(m_systList[e.sysIdx]),
           Entry("ShallowAuxContainer", e.sysIdx, AuxData(e.sc)), "recordCDV")

\* line 259, and the step to the next variation
RecordCDV(e) ==
    LET r == Record(e, OutKey(m_systList[e.sysIdx]),
                    Entry("ConstDataVector", e.sysIdx, e.cdv), "syst")
    IN  IF r.status = "FAILURE" THEN r
        ELSE LoopSyst([r EXCEPT !.sysIdx = @ + 1])

\* lines 266-273
RecordNames(e) ==
    LET r == Record(e, m_outputAlgoSystNames,
                    Entry("vector<string>", 0, e.vec), "done")
    IN  IF r.status = "FAILURE" THEN r ELSE Return(r, "SUCCESS", "")

\* lines 216-229: the calibration loop; the states it can end in, over what
\* the tool answers to each applyCorrection
RECURSIVE CalibrateLoop(_)
CalibrateLoop(e) ==
    IF e.pc = "calibrate"
    THEN UNION {CalibrateLoop(Calibrate(e, code)) : code \in CorrectionCodes}
    ELSE {e}

\* lines 249-259: the three records of a variation, up to the first rejected
RecordAll(e) ==
    LET a == RecordSC(e)
        b == IF a.pc = "recordAux" THEN RecordAux(a) ELSE a
    IN  IF b.pc = "recordCDV" THEN RecordCDV(b) ELSE b

\* ------------------------------------------------------------- actions
\* lines 95-98 of initialize(): the derived container names
OutAuxContainerName(base) == base \o "Aux."
OutSCContainerName_NoSuffix(base) == base
OutSCContainerName(base) == base \o "ShallowCopy"
OutSCAuxContainerName(base) == OutSCContainerName(base) \o "Aux."

Init ==
    /\ m_inContainerName \in InContainerNames
    /\ m_outContainerName \in OutContainerNames
    /\ m_outputAlgoSystNames \in OutputAlgoSystNames
    /\ m_sort \in BOOLEAN
    /\ mc \in BOOLEAN
    /\ m_outAuxContainerName = ""
    /\ m_outSCContainerName = ""
    /\ m_outSCAuxContainerName = ""
    /\ m_systList = <<>>
    /\ m_numEvent = 0
    /\ phase = "constructed"
    /\ toolSyst = Nominal
    /\ store = EmptyStore
    /\ pc = "noEvent"
    /\ status = "none"
    /\ failure = ""
    /\ vecOutContainerNames = <<>>
    /\ sysIdx = 0
    /\ calibTausSC = <<>>
    /\ calibTausCDV = <<>>
    /\ idx = 0
    /\ warned = FALSE
    /\ nLinkError = 0
    /\ store0 = EmptyStore
    /\ prevStatus = "none"

\* TauCalibrator::initialize.  systNameEmpty: m_systName is empty, and then
\* the list is the nominal variation alone and no name is listed
Initialize ==
    /\ phase = "constructed"
    /\ m_outAuxContainerName' = OutAuxContainerName(m_outContainerName)
    /\ m_outSCContainerName' = OutSCContainerName(m_outContainerName)
    /\ m_outSCAuxContainerName' = OutSCAuxContainerName(m_outContainerName)
    /\ IF m_inContainerName = ""
       THEN /\ phase' = "initFailed"
            /\ UNCHANGED <<m_systList, m_numEvent, store>>
       ELSE /\ m_numEvent' = 0
            /\ \E list \in SystLists, systNameEmpty \in BOOLEAN :
                 /\ systNameEmpty => list = <<Nominal>>
                 /\ m_systList' = list
                 /\ LET key == "taus_Syst" \o AlgName
                        names == IF systNameEmpty THEN <<>> ELSE list
                    IN  IF key \in DOMAIN store
                        THEN phase' = "initFailed" /\ store' = store
                        ELSE /\ phase' = "initialized"
                             /\ store' = (key :> Entry("vector<string>", 0, names)) @@ store
    /\ UNCHANGED <<config, toolSyst, pc, status, failure, vecOutContainerNames,
                   sysIdx, calibTausSC, calibTausCDV, idx, warned, nLinkError,
                   store0, prevStatus>>

\* the framework starts an event: a fresh event store that holds the event's
\* inputs (hasInfo, hasTaus: the event info, the input container are there)
BeginEvent ==
    /\ phase = "initialized"
    /\ pc = "noEvent"
    /\ \E taus \in TauJetContainers, hasInfo, hasTaus \in BOOLEAN :
         /\ ~hasTaus => taus = <<>>
         /\ store' = [key \in (IF hasInfo THEN {EventInfoName} ELSE {})
                              \cup (IF hasTaus THEN {m_inContainerName} ELSE {}) |->
                         IF key = EventInfoName
                         THEN Entry("EventInfo", 0, <<>>)
                         ELSE Entry("TauJetContainer", 0, taus)]
    /\ pc' = "ready"
    /\ UNCHANGED <<config, members, m_numEvent, toolSyst, status, failure,
                   vecOutContainerNames, sysIdx, calibTausSC, calibTausCDV, idx,
                   warned, nLinkError, store0, prevStatus>>

\* the framework calls execute() on the event it started
Execute ==
    /\ phase = "initialized"
    /\ pc = "ready"
    /\ Commit(Retrieve(Cur))
    /\ store0' = store
    /\ prevStatus' = status
    /\ UNCHANGED <<config, members>>

\* execute() is called once more on the store a successful execute() left
ExecuteAgain ==
    /\ phase = "initialized"
    /\ pc = "done"
    /\ status = "SUCCESS"
    /\ m_numEvent < MaxExec
    /\ Commit(Retrieve(Cur))
    /\ store0' = store
    /\ prevStatus' = status
    /\ UNCHANGED <<config, members>>

\* one round of the loop over m_systList (lines 183-261).  The environment
\* answers: ok, the tool accepts the variation; what applyCorrection returns
\* for each tau; linked, the links could be set; sorted, what std::sort makes
\* of the view.
ProcessVariation ==
    /\ pc = "syst"
    /\ \E ok, linked \in BOOLEAN :
         \E calibrated \in CalibrateLoop(ApplySyst(Cur, ok)) :
            IF calibrated.pc = "done" THEN Commit(calibrated)
            ELSE \E sorted \in StdSort(MakeSubsetCont(calibrated.sc),
                                        calibrated.sc) :
                    Commit(RecordAll(LinkAndView(calibrated, linked, sorted)))
    /\ UNCHANGED <<config, members, store0, prevStatus>>

RecordSystNames ==
    /\ pc = "recordNames"
    /\ Commit(RecordNames(Cur))
    /\ UNCHANGED <<config, members, store0, prevStatus>>

Next ==
    \/ Initialize
    \/ BeginEvent
    \/ Execute
    \/ ProcessVariation
    \/ RecordSystNames

Spec == Init /\ [][Next]_vars

NextAgain ==
    \/ Initialize
    \/ BeginEvent
    \/ Execute
    \/ ExecuteAgain
    \/ ProcessVariation
    \/ RecordSystNames

\* one event whose store sees execute() up to MaxExec times
SpecAgain == Init /\ [][NextAgain]_vars

\* ------------------------------------------------ whole runs of execute()
\* One step of execute() from e when the environment answers by o: the tool
\* rejects variation number o.cfgFailAt (0: none), applyCorrection returns
\* o.code, the links are set iff o.linkOk.
Step(e, o) ==
    CASE e.pc = "syst"        -> ApplySyst(e, e.sysIdx # o.cfgFailAt)
      [] e.pc = "calibrate"   -> Calibrate(e, o.code)
      [] e.pc = "link"        ->
            LinkAndView(e, o.linkOk,
                        CHOOSE r \in StdSort(MakeSubsetCont(e.sc), e.sc) : TRUE)
      [] e.pc = "recordSC"    -> RecordSC(e)
      [] e.pc = "recordAux"   -> RecordAux(e)
      [] e.pc = "recordCDV"   -> RecordCDV(e)
      [] e.pc = "recordNames" -> RecordNames(e)
      [] OTHER                -> e

RECURSIVE RunToEnd(_, _)
RunToEnd(e, o) == IF e.pc = "done" THEN e ELSE RunToEnd(Step(e, o), o)

\* execute() from the store st, answered by o
ExecuteFrom(st, o) == RunToEnd(Retrieve([Cur EXCEPT !.store = st]), o)

\* --------------------------------------------------------- vocabulary
Finished == pc = "done"
Succeeded == pc = "done" /\ status = "SUCCESS"
InExecute == pc \notin {"noEvent", "ready"}
RecordFailures == {"recordSC", "recordAux", "recordCDV", "recordNames"}
NSyst == Len(m_systList)
\* the keys execute() has added to the store it was given
Added == DOMAIN store \ DOMAIN store0
\* the store held the event's inputs and nothing else
OnlyInputs(st) == DOMAIN st = {EventInfoName, m_inContainerName}
\* variation number k has its three entries in the store
Recorded(k) ==
    LET name == m_systList[k]
    IN  /\ {SCKey(name), SCAuxKey(name), OutKey(name)} \subseteq DOMAIN store
        /\ store[SCKey(name)].kind = "TauJetContainer"
        /\ store[SCKey(name)].syst = k
        /\ store[SCAuxKey(name)].kind = "ShallowAuxContainer"
        /\ store[SCAuxKey(name)].syst = k
        /\ store[OutKey(name)].kind = "ConstDataVector"
        /\ store[OutKey(name)].syst = k

\* ------------------------------------------------------------- claims
\* C1: a successful execute() leaves under m_outputAlgoSystNames a manifest
\* with one entry per variation of m_systList, the same names in the same
\* order, the baseline as the empty string.
C1_Manifest ==
    Succeeded =>
        /\ m_outputAlgoSystNames \in DOMAIN store
        /\ store[m_outputAlgoSystNames].kind = "vector<string>"
        /\ Len(store[m_outputAlgoSystNames].data) = NSyst
        /\ \A k \in 1..NSyst :
              /\ store[m_outputAlgoSystNames].data[k] = m_systList[k]
              /\ (m_systList[k] = Nominal => store[m_outputAlgoSystNames].data[k] = "")

C1_Witness ==
    /\ Succeeded
    /\ NSyst = 2
    /\ m_systList[1] = Nominal
    /\ store[m_outputAlgoSystNames].data = <<"", "_1up">>

\* C2: when the input container is absent from the store execute() is
\* called on, execute() returns FAILURE from the retrieval, the store is
\* left as it was, no variation is entered and the tool is not touched.
C2_MissingInput ==
    (InExecute /\ m_inContainerName \notin DOMAIN store0) =>
        /\ pc = "done"
        /\ status = "FAILURE"
        /\ failure = "retrieve"
        /\ store = store0
        /\ vecOutContainerNames = <<>>
        /\ sysIdx = 1
        /\ toolSyst = Nominal

C2_Witness ==
    /\ pc = "done"
    /\ EventInfoName \in DOMAIN store0
    /\ m_inContainerName \notin DOMAIN store0
    /\ NSyst = 2

\* C3: when applySystematicVariation fails for variation number k,
\* execute() returns FAILURE at once: the three entries of each of the first
\* k-1 variations stay recorded, nothing else has been added (nothing for the
\* k-th or a later variation, no manifest), and no later variation was
\* entered.
C3_ConfigFailure ==
    (Finished /\ failure = "applySystematicVariation") =>
        /\ status = "FAILURE"
        /\ sysIdx \in 1..NSyst
        /\ \A k \in 1..(sysIdx - 1) : Recorded(k)
        /\ \A key \in Added : store[key].syst \in 1..(sysIdx - 1)
        /\ Cardinality(Added) = 3 * (sysIdx - 1)
        /\ \A key \in DOMAIN store0 : store[key] = store0[key]
        /\ Len(vecOutContainerNames) = sysIdx
        /\ toolSyst = IF sysIdx = 1 THEN Nominal ELSE m_systList[sysIdx - 1]

C3_Witness ==
    /\ Finished
    /\ failure = "applySystematicVariation"
    /\ sysIdx = 2
    /\ Recorded(1)

\* C4: an applyCorrection that returns Error and a setOriginalObjectLink that
\* fails are not fatal: the finished execute() has the status, the failing
\* call, the position in the list, the store keys (with kind and variation)
\* and the manifest of the run from the same store in which every
\* applyCorrection returns Ok and every link is set.
C4_NonFatal ==
    Finished =>
        LET favourable == [cfgFailAt |-> IF failure = "applySystematicVariation"
                                         THEN sysIdx ELSE 0,
                           code |-> "Ok", linkOk |-> TRUE]
            ref == ExecuteFrom(store0, favourable)
        IN  /\ ref.status = status
            /\ ref.failure = failure
            /\ ref.sysIdx = sysIdx
            /\ ref.vec = vecOutContainerNames
            /\ DOMAIN ref.store = DOMAIN store
            /\ \A key \in DOMAIN store :
                  /\ ref.store[key].kind = store[key].kind
                  /\ ref.store[key].syst = store[key].syst
                  /\ store[key].kind = "vector<string>" =>
                        ref.store[key].data = store[key].data

C4_Witness ==
    /\ Succeeded
    /\ NSyst = 2
    /\ warned
    /\ nLinkError = 2
    /\ Cardinality(Added) = 7

\* C5 as claimed: a successful execute() on a store that held only the
\* inputs adds 3*|L|+1 entries, and the entry under base+v is the owning
\* collection of variation v.
C5_OwningUnderBaseName ==
    (Succeeded /\ OnlyInputs(store0)) =>
        /\ Cardinality(Added) = 3 * NSyst + 1
        /\ \A k \in 1..NSyst :
              /\ (m_outContainerName \o m_systList[k]) \in DOMAIN store
              /\ store[m_outContainerName \o m_systList[k]].kind = "TauJetContainer"

\* C5 amended: a successful execute() on a store that held only the inputs
\* adds exactly 3*|L|+1 entries: for each variation v the owning shallow copy
\* under base+"ShallowCopy"+v, its auxiliary store under
\* base+"ShallowCopyAux."+v and the read-only view under base+v, plus the
\* manifest under m_outputAlgoSystNames.
C5_Entries ==
    (Succeeded /\ OnlyInputs(store0)) =>
        /\ Cardinality(Added) = 3 * NSyst + 1
        /\ \A key \in DOMAIN store0 : key \in DOMAIN store /\ store[key] = store0[key]
        /\ Added = {m_outputAlgoSystNames} \cup
                   UNION {{(m_outContainerName \o "ShallowCopy") \o m_systList[k],
                           (m_outContainerName \o "ShallowCopyAux.") \o m_systList[k],
                           m_outContainerName \o m_systList[k]} : k \in 1..NSyst}
        /\ store[m_outputAlgoSystNames].kind = "vector<string>"
        /\ \A k \in 1..NSyst :
              LET v == m_systList[k]
              IN  /\ store[(m_outContainerName \o "ShallowCopy") \o v].kind
                        = "TauJetContainer"
                  /\ store[(m_outContainerName \o "ShallowCopyAux.") \o v].kind
                        = "ShallowAuxContainer"
                  /\ store[m_outContainerName \o v].kind = "ConstDataVector"
                  /\ Recorded(k)

C5_Witness ==
    /\ Succeeded
    /\ OnlyInputs(store0)
    /\ m_systList = <<"", "_1up">>
    /\ {"Out", "Out_1up", "OutShallowCopy", "OutShallowCopy_1up",
        "OutShallowCopyAux.", "OutShallowCopyAux._1up", "Out_Systs"} = Added
    /\ store["Out_1up"].kind = "ConstDataVector"

\* the names of the list
SystNames == {m_systList[k] : k \in 1..NSyst}
\* the 3*|L| keys execute() generates for the list
GenKeys == UNION {{SCKey(v), SCAuxKey(v), OutKey(v)} : v \in SystNames}
\* no name of the list is "ShallowCopy", "ShallowCopyAux." or "Aux." followed
\* by a name of the list
NoNameClash ==
    \A v, w \in SystNames :
        v \notin {"ShallowCopy" \o w, "ShallowCopyAux." \o w, "Aux." \o w}

\* C6 as claimed: for every list of pairwise distinct names the 3*|L|
\* generated keys and the manifest key are pairwise distinct, and no record
\* of an execute() on a store that held only the inputs is rejected (read
\* at the end of an execute() that the tool did not stop).
C6_AllKeysDistinct ==
    (Finished /\ OnlyInputs(store0) /\ Cardinality(SystNames) = NSyst
              /\ failure # "applySystematicVariation") =>
        /\ Cardinality(GenKeys \cup {m_outputAlgoSystNames}) = 3 * NSyst + 1
        /\ failure \notin RecordFailures

\* C6 amended: the three keys of one variation are pairwise distinct and so
\* are the keys of one kind of two variations; all 3*|L| generated keys are
\* pairwise distinct when no name of the list is "ShallowCopy",
\* "ShallowCopyAux." or "Aux." followed by a name of the list; when in
\* addition the configured manifest key is none of the generated keys and
\* the store holds none of the 3*|L|+1 keys when execute() is called, no
\* record of that execute() is rejected; and an execute() that succeeds has
\* written 3*|L|+1 pairwise distinct keys.
C6_KeysDistinct ==
    phase = "initialized" =>
        /\ \A v \in SystNames :
              Cardinality({SCKey(v), SCAuxKey(v), OutKey(v)}) = 3
        /\ \A v, w \in SystNames :
              v # w => /\ SCKey(v) # SCKey(w)
                       /\ SCAuxKey(v) # SCAuxKey(w)
                       /\ OutKey(v) # OutKey(w)
        /\ NoNameClash => Cardinality(GenKeys) = 3 * NSyst
        /\ (NoNameClash /\ m_outputAlgoSystNames \notin GenKeys) =>
              /\ Cardinality(GenKeys \cup {m_outputAlgoSystNames}) = 3 * NSyst + 1
              /\ (InExecute /\ (GenKeys \cup {m_outputAlgoSystNames})
                                  \cap DOMAIN store0 = {})
                    => failure \notin RecordFailures
        /\ Succeeded =>
              /\ Added = GenKeys \cup {m_outputAlgoSystNames}
              /\ Cardinality(Added) = 3 * NSyst + 1

C6_Witness ==
    /\ Succeeded
    /\ OnlyInputs(store0)
    /\ NSyst = 2
    /\ NoNameClash
    /\ m_outputAlgoSystNames \notin GenKeys
    /\ Added = GenKeys \cup {m_outputAlgoSystNames}
    /\ Cardinality(Added) = 7

\* the recorded views: the keys that hold a ConstDataVector
ViewKeys == {key \in DOMAIN store : store[key].kind = "ConstDataVector"}
\* the shallow copy the view under key points into
CopyOf(key) == store[SCKey(m_systList[store[key].syst])].data

\* C7: the view recorded under base+v holds each of the N elements of the
\* shallow copy of v once (N the size of the input); with m_sort the pt of
\* the copies, as corrected, does not increase along the view; without
\* m_sort the view lists the copy in the input's order.
C7_View ==
    \A key \in ViewKeys :
        LET view == store[key].data
            copy == CopyOf(key)
            n == Len(InTaus(store))
        IN  /\ key = OutKey(m_systList[store[key].syst])
            /\ Len(copy) = n
            /\ Len(view) = n
            /\ {view[i] : i \in 1..n} = 1..n
            /\ m_sort => \A i, j \in 1..n :
                            i < j => copy[view[i]].pt >= copy[view[j]].pt
            /\ ~m_sort => \A i \in 1..n : view[i] = i

C7_Witness ==
    /\ m_sort
    /\ \E key \in ViewKeys :
          /\ store[key].data = <<2, 1>>
          /\ InTaus(store)[1].pt > InTaus(store)[2].pt
          /\ CopyOf(key)[1].pt < CopyOf(key)[2].pt

\* the entries of variations 1..k-1 and the first n of variation k
RecordedUpTo(k, n) ==
    UNION {{SCKey(m_systList[j]), SCAuxKey(m_systList[j]), OutKey(m_systList[j])} :
            j \in 1..(k - 1)}
    \cup (IF n >= 1 THEN {SCKey(m_systList[k])} ELSE {})
    \cup (IF n >= 2 THEN {SCAuxKey(m_systList[k])} ELSE {})

\* the key whose record was rejected
RejectedKey ==
    CASE failure = "recordSC"    -> SCKey(m_systList[sysIdx])
      [] failure = "recordAux"   -> SCAuxKey(m_systList[sysIdx])
      [] failure = "recordCDV"   -> OutKey(m_systList[sysIdx])
      [] failure = "recordNames" -> m_outputAlgoSystNames

\* C8: a rejected record ends execute() with FAILURE: the key was present,
\* the store keeps what it held and what was recorded before the rejection
\* and gets nothing after it, and no later variation is entered.  An
\* execute() on the store a successful execute() left fails no later than
\* at its first record and leaves the store as it was.
C8_RejectedRecord ==
    /\ (Finished /\ failure \in RecordFailures) =>
          /\ status = "FAILURE"
          /\ \A key \in DOMAIN store0 : key \in DOMAIN store /\ store[key] = store0[key]
          /\ RejectedKey \in DOMAIN store
          /\ failure = "recordNames" => sysIdx = NSyst + 1
          /\ failure # "recordNames" => sysIdx \in 1..NSyst
          /\ Len(vecOutContainerNames) = IF failure = "recordNames" THEN NSyst ELSE sysIdx
          /\ Added = RecordedUpTo(sysIdx, CASE failure = "recordAux" -> 1
                                           [] failure = "recordCDV" -> 2
                                           [] OTHER -> 0)
          /\ \A key \in Added : store[key].syst \in 1..sysIdx
          /\ OnlyInputs(store0) =>
                /\ \A k \in 1..(sysIdx - 1) : Recorded(k)
                /\ Cardinality(Added) =
                      3 * (sysIdx - 1) + (CASE failure = "recordAux" -> 1
                                            [] failure = "recordCDV" -> 2
                                            [] OTHER -> 0)
    /\ (Finished /\ prevStatus = "SUCCESS") =>
          /\ status = "FAILURE"
          /\ store = store0
          /\ sysIdx = 1
          /\ failure \in {"recordSC", "recordNames", "applySystematicVariation"}
          /\ NSyst = 0 <=> failure = "recordNames"

C8_Witness ==
    /\ Finished
    /\ prevStatus = "SUCCESS"
    /\ failure = "recordSC"
    /\ NSyst = 2
    /\ Cardinality(DOMAIN store) = 9

\* the recorded shallow copies: the keys that hold a copy of a variation
CopyKeys ==
    {key \in DOMAIN store : store[key].kind = "TauJetContainer" /\ store[key].syst >= 1}

\* C9: applyCorrection is called on a copy exactly once when the run is
\* simulation and the tau has a truth tau, and never otherwise (never at all
\* on data); a copy it was not called on has the input's pt, no warning is
\* logged for it, and it shares the links, the recorded copy and the view
\* with the others.
C9_Correction ==
    /\ ~mc => ~warned
    /\ warned => \E i \in 1..Len(InTaus(store)) : InTaus(store)[i].truth
    /\ \A key \in CopyKeys :
          LET copy == store[key].data
              name == m_systList[store[key].syst]
          IN  /\ Len(copy) = Len(InTaus(store))
              /\ \A i \in 1..Len(copy) :
                    LET in == InTaus(store)[i]
                    IN  /\ Len(copy[i].calls) = IF mc /\ in.truth THEN 1 ELSE 0
                        /\ copy[i].calls = <<>> => copy[i].pt = in.pt
                        /\ copy[i].orig \in {0, i}
                        /\ \A j \in 1..Len(copy) :
                              (copy[i].orig = 0) <=> (copy[j].orig = 0)
                        /\ (OutKey(name) \in ViewKeys /\ store[OutKey(name)].syst = store[key].syst)
                              => \E n \in 1..Len(store[OutKey(name)].data) :
                                    store[OutKey(name)].data[n] = i

C9_Witness ==
    /\ Succeeded
    /\ mc
    /\ \E key \in CopyKeys :
          LET copy == store[key].data
          IN  /\ Len(copy) = 2
              /\ ~InTaus(store)[1].truth
              /\ copy[1].calls = <<>>
              /\ copy[1].orig = 1
              /\ copy[1].pt = InTaus(store)[1].pt
              /\ InTaus(store)[2].truth
              /\ Len(copy[2].calls) = 1
              /\ copy[2].pt # InTaus(store)[2].pt

\* the prefix relation on sequences
IsPrefix(s, t) == Len(s) <= Len(t) /\ \A k \in 1..Len(s) : s[k] = t[k]

\* C10: the variations do not depend on one another: every applyCorrection on
\* a copy of variation v was made while the tool's active variation was v
\* (between two rounds the active variation is the one of the round before);
\* a copy starts from the input's values, so that a recorded pt is the input's
\* pt or the tool's correction of the input's pt under v; execute() changes
\* neither the input container nor the list it walks through.
C10_FanOut ==
    /\ (pc \in {"syst", "recordNames"} /\ sysIdx > 1) =>
          toolSyst = m_systList[sysIdx - 1]
    /\ \A key \in CopyKeys :
          LET copy == store[key].data
              name == m_systList[store[key].syst]
          IN  /\ key = SCKey(name)
              /\ \A i \in 1..Len(copy) :
                    LET in == InTaus(store)[i]
                    IN  /\ copy[i].truth = in.truth
                        /\ \A n \in 1..Len(copy[i].calls) : copy[i].calls[n] = name
                        /\ copy[i].pt \in {in.pt, Corr(name, in.pt)}
    /\ (InExecute /\ m_inContainerName \in DOMAIN store0) =>
          /\ m_inContainerName \in DOMAIN store
          /\ store[m_inContainerName] = store0[m_inContainerName]
    /\ InExecute => IsPrefix(vecOutContainerNames, m_systList)

C10_Witness ==
    /\ Succeeded
    /\ NSyst = 2
    /\ \E i \in 1..Len(InTaus(store)) :
          LET first == store[SCKey(m_systList[1])].data[i]
              second == store[SCKey(m_systList[2])].data[i]
              in == InTaus(store)[i]
          IN  /\ first.calls = <<m_systList[1]>>
              /\ second.calls = <<m_systList[2]>>
              /\ first.pt = Corr(m_systList[1], in.pt)
              /\ second.pt = Corr(m_systList[2], in.pt)
              /\ first.pt # second.pt

====
